---- MODULE Spec2Model ----
(***************************************************************************)
(* Tower Builder physics engine (SI version): block.js, physics.js and     *)
(* world.js as a state machine.                                            *)
(*                                                                         *)
(* Numbers.  The engine computes on JavaScript Numbers.  Here every length *)
(* and velocity is a fixed-point integer counting 1/SCALE of a metre (or   *)
(* of a metre per second), friction and bounciness are integers counting   *)
(* 1/100, mass is an integer number of kilograms and a time step is an     *)
(* integer number of milliseconds.  A product or quotient that is not a    *)
(* whole number of units is rounded toward zero (TDiv), where the engine   *)
(* would round to the nearest double.                                      *)
(***************************************************************************)
EXTENDS Integers, Sequences, FiniteSets, TLC

VARIABLES world,   \* the world object of createWorld: its fields, blocks included
          prev,    \* history: the world as it was when the last call was made
          lastOp,  \* history: the last call and its arguments
          count,   \* history: number of calls made so far
          idCounter,  \* block.js: the counter generateId takes ids from
          pc       \* where a running step is in its loops, and what it has done

vars == <<world, prev, lastOp, count, idCounter, pc>>

----------------------------------------------------------------------------
(* Fixed-point arithmetic *)

SCALE == 10000

Abs(a) == IF a < 0 THEN -a ELSE a

\* Math.sign
Sign(a) == IF a > 0 THEN 1 ELSE IF a < 0 THEN -1 ELSE 0

\* quotient rounded toward zero; b > 0
TDiv(a, b) == IF a >= 0 THEN a \div b ELSE -((-a) \div b)

Min(a, b) == IF a <= b THEN a ELSE b

\* the value JavaScript's null / undefined stands for in an id field
Null == "null"

----------------------------------------------------------------------------
(* block.js *)

\* mutant: a static block is created already dragging
createBlock_dragging(id, x, y, width, height, mass, friction, bounciness, vx, vy, isStatic) ==
  [id |-> id, x |-> x, y |-> y, width |-> width, height |-> height,
   mass |-> mass, friction |-> friction, bounciness |-> bounciness,
   vx |-> vx, vy |-> vy, isStatic |-> isStatic, isDragging |-> isStatic]

\* createBlock: the options given, isDragging always false
createBlock(id, x, y, width, height, mass, friction, bounciness, vx, vy, isStatic) ==
  [id |-> id, x |-> x, y |-> y, width |-> width, height |-> height,
   mass |-> mass, friction |-> friction, bounciness |-> bounciness,
   vx |-> vx, vy |-> vy, isStatic |-> isStatic, isDragging |-> FALSE]

\* sum of the two frictions, in 1/100: the mean is this over 2
getEffectiveFriction(block1, block2) == block1.friction + block2.friction

\* sum of the two bounciness values, in 1/100: the mean is this over 2
getEffectiveBounciness(block1, block2) == block1.bounciness + block2.bounciness

getBounds(block) ==
  [left |-> block.x, right |-> block.x + block.width,
   top |-> block.y, bottom |-> block.y + block.height]

\* twice the centre (x + width/2, y + height/2), so that no half unit is lost
getCenter(block) ==
  [x |-> 2 * block.x + block.width, y |-> 2 * block.y + block.height]

\* generateId with the counter at n: the id returned and the counter afterwards
generateId(n) == [id |-> "block_" \o ToString(n + 1), idCounter |-> n + 1]

\* the counter after resetIdCounter
resetIdCounter == 0

\* cloneBlock with the counter at n: every field copied, the id a generated one
cloneBlock(block, n) ==
  [block |-> [block EXCEPT !.id = generateId(n).id], idCounter |-> generateId(n).idCounter]

----------------------------------------------------------------------------
(* physics.js *)

GRAVITY == (98 * SCALE) \div 10         \* 9.8 m/s^2
DAMPING == 99                          \* 0.99 per frame, in 1/100
SLEEP_THRESHOLD == SCALE \div 1000     \* 0.001 m/s
MAX_VELOCITY == 100 * SCALE            \* 100 m/s

applyGravity(block, dt) ==
  IF block.isStatic \/ block.isDragging THEN block
  ELSE [block EXCEPT !.vy = @ + TDiv(GRAVITY * dt, 1000)]

updatePosition(block, dt) ==
  IF block.isStatic \/ block.isDragging THEN block
  ELSE [block EXCEPT !.x = @ + TDiv(block.vx * dt, 1000),
                     !.y = @ + TDiv(block.vy * dt, 1000)]

NoCollision == [hit |-> FALSE, overlapX |-> 0, overlapY |-> 0, dirX |-> 1, dirY |-> 1]

\* mutant: blocks whose edges touch collide, with an overlap of 0
checkCollision_touching(block1, block2) ==
  LET b1 == getBounds(block1)
      b2 == getBounds(block2)
      overlapX == Min(b1.right - b2.left, b2.right - b1.left)
      overlapY == Min(b1.bottom - b2.top, b2.bottom - b1.top)
      sx == Sign(getCenter(block1).x - getCenter(block2).x)
      sy == Sign(getCenter(block1).y - getCenter(block2).y)
  IN IF overlapX < 0 \/ overlapY < 0 THEN NoCollision
     ELSE [hit |-> TRUE, overlapX |-> overlapX, overlapY |-> overlapY,
           dirX |-> IF sx = 0 THEN 1 ELSE sx,
           dirY |-> IF sy = 0 THEN 1 ELSE sy]

\* returns NoCollision (hit = FALSE) where the code returns null
checkCollision(block1, block2) ==
  LET b1 == getBounds(block1)
      b2 == getBounds(block2)
      overlapX == Min(b1.right - b2.left, b2.right - b1.left)
      overlapY == Min(b1.bottom - b2.top, b2.bottom - b1.top)
      c1 == getCenter(block1)
      c2 == getCenter(block2)
      sx == Sign(c1.x - c2.x)
      sy == Sign(c1.y - c2.y)
  IN IF overlapX <= 0 \/ overlapY <= 0 THEN NoCollision
     ELSE [hit |-> TRUE, overlapX |-> overlapX, overlapY |-> overlapY,
           dirX |-> IF sx = 0 THEN 1 ELSE sx,
           dirY |-> IF sy = 0 THEN 1 ELSE sy]

\* each of the operators below returns the pair <<block1, block2>> after the call

\* mutant: the 50/50 split for every pair, a static block included
separateBlocks_even(block1, block2, overlapX, overlapY, dirX, dirY) ==
  <<[block1 EXCEPT !.x = @ + TDiv(dirX * overlapX, 2),
                   !.y = @ + TDiv(dirY * overlapY, 2)],
    [block2 EXCEPT !.x = @ - TDiv(dirX * overlapX, 2),
                   !.y = @ - TDiv(dirY * overlapY, 2)]>>

\* mutant: only the first block of the pair is moved, by half the overlap
separateBlocks_oneSided(block1, block2, overlapX, overlapY, dirX, dirY) ==
  <<[block1 EXCEPT !.x = @ + TDiv(dirX * overlapX, 2),
                   !.y = @ + TDiv(dirY * overlapY, 2)],
    block2>>

separateBlocks(block1, block2, overlapX, overlapY, dirX, dirY) ==
  IF block1.isStatic THEN
    <<block1,
      [block2 EXCEPT !.x = @ - dirX * overlapX, !.y = @ - dirY * overlapY]>>
  ELSE IF block2.isStatic THEN
    <<[block1 EXCEPT !.x = @ + dirX * overlapX, !.y = @ + dirY * overlapY],
      block2>>
  ELSE
    <<[block1 EXCEPT !.x = @ + TDiv(dirX * overlapX, 2),
                     !.y = @ + TDiv(dirY * overlapY, 2)],
      [block2 EXCEPT !.x = @ - TDiv(dirX * overlapX, 2),
                     !.y = @ - TDiv(dirY * overlapY, 2)]>>

\* 1/mass as the fraction <<numerator, denominator>>; 0 for a static block
InvMass(block) == IF block.isStatic THEN <<0, 1>> ELSE <<1, block.mass>>

\* the velocity change j * invMass of one block on one axis, where
\* j = -(1 + bounciness) * relV / totalInvMass; w / total = invMass / totalInvMass
\* mutant: (2 + bounciness) for (1 + bounciness)
ImpulseDelta_strong(relV, bounce2, w, total) ==
  TDiv(-((400 + bounce2) * relV * w), 200 * total)

ImpulseDelta(relV, bounce2, w, total) ==
  TDiv(-((200 + bounce2) * relV * w), 200 * total)

applyImpulse(block1, block2, dirX, dirY) ==
  LET bounciness == getEffectiveBounciness(block1, block2)
      invMass1 == InvMass(block1)
      invMass2 == InvMass(block2)
      \* invMass1, invMass2 and their sum over the common denominator
      w1 == invMass1[1] * invMass2[2]
      w2 == invMass2[1] * invMass1[2]
      totalInvMass == w1 + w2
      relVx == block1.vx - block2.vx
      approachingX == (relVx * dirX) < 0
      relVy == block1.vy - block2.vy
      approachingY == (relVy * dirY) < 0
      free1 == ~block1.isStatic /\ ~block1.isDragging
      free2 == ~block2.isStatic /\ ~block2.isDragging
  IN IF totalInvMass = 0 THEN <<block1, block2>>
     ELSE
       <<[block1 EXCEPT
            !.vx = IF approachingX /\ free1
                   THEN @ + ImpulseDelta(relVx, bounciness, w1, totalInvMass) ELSE @,
            !.vy = IF approachingY /\ free1
                   THEN @ + ImpulseDelta(relVy, bounciness, w1, totalInvMass) ELSE @],
         [block2 EXCEPT
            !.vx = IF approachingX /\ free2
                   THEN @ - ImpulseDelta(relVx, bounciness, w2, totalInvMass) ELSE @,
            !.vy = IF approachingY /\ free2
                   THEN @ - ImpulseDelta(relVy, bounciness, w2, totalInvMass) ELSE @]>>

\* mutant: friction takes a quarter of the relative velocity, not half of it
applyFriction_half(block1, block2, overlapX, overlapY) ==
  LET friction == getEffectiveFriction(block1, block2)
      free1 == ~block1.isStatic /\ ~block1.isDragging
      free2 == ~block2.isStatic /\ ~block2.isDragging
      fy == TDiv((block1.vy - block2.vy) * friction, 800)
      fx == TDiv((block1.vx - block2.vx) * friction, 800)
  IN IF overlapX < overlapY THEN
       <<[block1 EXCEPT !.vy = IF free1 THEN @ - fy ELSE @],
         [block2 EXCEPT !.vy = IF free2 THEN @ + fy ELSE @]>>
     ELSE
       <<[block1 EXCEPT !.vx = IF free1 THEN @ - fx ELSE @],
         [block2 EXCEPT !.vx = IF free2 THEN @ + fx ELSE @]>>

applyFriction(block1, block2, overlapX, overlapY) ==
  LET friction == getEffectiveFriction(block1, block2)
      free1 == ~block1.isStatic /\ ~block1.isDragging
      free2 == ~block2.isStatic /\ ~block2.isDragging
      \* relV * friction * 0.5, friction being the mean of the two
      fy == TDiv((block1.vy - block2.vy) * friction, 400)
      fx == TDiv((block1.vx - block2.vx) * friction, 400)
  IN IF overlapX < overlapY THEN
       <<[block1 EXCEPT !.vy = IF free1 THEN @ - fy ELSE @],
         [block2 EXCEPT !.vy = IF free2 THEN @ + fy ELSE @]>>
     ELSE
       <<[block1 EXCEPT !.vx = IF free1 THEN @ - fx ELSE @],
         [block2 EXCEPT !.vx = IF free2 THEN @ + fx ELSE @]>>

resolveCollision(block1, block2, collision) ==
  IF ~collision.hit THEN <<block1, block2>>
  ELSE IF block1.isStatic /\ block2.isStatic THEN <<block1, block2>>
  ELSE
    LET s == separateBlocks(block1, block2, collision.overlapX, collision.overlapY,
                            collision.dirX, collision.dirY)
        i == applyImpulse(s[1], s[2], collision.dirX, collision.dirY)
    IN applyFriction(i[1], i[2], collision.overlapX, collision.overlapY)

\* mutant: the velocity cap is left out
applyDamping_noCap(block) ==
  IF block.isStatic \/ block.isDragging THEN block
  ELSE
    LET dx == TDiv(block.vx * DAMPING, 100)
        dy == TDiv(block.vy * DAMPING, 100)
    IN [block EXCEPT !.vx = IF Abs(dx) < SLEEP_THRESHOLD THEN 0 ELSE dx,
                     !.vy = IF Abs(dy) < SLEEP_THRESHOLD THEN 0 ELSE dy]

applyDamping(block) ==
  IF block.isStatic \/ block.isDragging THEN block
  ELSE
    LET dx == TDiv(block.vx * DAMPING, 100)
        dy == TDiv(block.vy * DAMPING, 100)
        sx == IF Abs(dx) < SLEEP_THRESHOLD THEN 0 ELSE dx
        sy == IF Abs(dy) < SLEEP_THRESHOLD THEN 0 ELSE dy
    IN [block EXCEPT
          !.vx = IF Abs(sx) > MAX_VELOCITY THEN Sign(sx) * MAX_VELOCITY ELSE sx,
          !.vy = IF Abs(sy) > MAX_VELOCITY THEN Sign(sy) * MAX_VELOCITY ELSE sy]

\* mutant: at the walls the velocity is negated where the code takes Math.abs
bounceOffWalls_negate(block, worldWidth, worldHeight) ==
    LET bounds == getBounds(block)
        l == IF bounds.left < 0
             THEN [block EXCEPT !.x = 0, !.vx = -TDiv(@ * block.bounciness, 100)]
             ELSE block
        r == IF bounds.right > worldWidth
             THEN [l EXCEPT !.x = worldWidth - block.width,
                            !.vx = -TDiv(@ * block.bounciness, 100)]
             ELSE l
        f == IF bounds.bottom > worldHeight
             THEN [r EXCEPT !.y = worldHeight - block.height,
                            !.vy = -TDiv(@ * block.bounciness, 100),
                            !.vx = TDiv(r.vx * (1000 - block.friction), 1000)]
             ELSE r
    IN IF bounds.top < 0
       THEN [f EXCEPT !.y = 0, !.vy = -TDiv(@ * block.bounciness, 100)]
       ELSE f

\* the four wall tests of constrainToWorld; they read the bounds taken before
\* the first of them
bounceOffWalls(block, worldWidth, worldHeight) ==
    LET bounds == getBounds(block)
        l == IF bounds.left < 0
             THEN [block EXCEPT !.x = 0, !.vx = TDiv(Abs(@) * block.bounciness, 100)]
             ELSE block
        r == IF bounds.right > worldWidth
             THEN [l EXCEPT !.x = worldWidth - block.width,
                            !.vx = -TDiv(Abs(@) * block.bounciness, 100)]
             ELSE l
        f == IF bounds.bottom > worldHeight
             THEN [r EXCEPT !.y = worldHeight - block.height,
                            !.vy = -TDiv(Abs(@) * block.bounciness, 100),
                            !.vx = TDiv(r.vx * (1000 - block.friction), 1000)]
             ELSE r
    IN IF bounds.top < 0
       THEN [f EXCEPT !.y = 0, !.vy = TDiv(Abs(@) * block.bounciness, 100)]
       ELSE f

\* mutant: a dragged block is skipped, as applyDamping skips it
constrainToWorld_skipDragged(block, worldWidth, worldHeight) ==
  IF block.isStatic \/ block.isDragging THEN block
  ELSE bounceOffWalls(block, worldWidth, worldHeight)

constrainToWorld(block, worldWidth, worldHeight) ==
  IF block.isStatic THEN block
  ELSE bounceOffWalls(block, worldWidth, worldHeight)

----------------------------------------------------------------------------
(* world.js *)

COLLISION_ITERATIONS == 4
CONTACT_TOLERANCE == (5 * SCALE) \div 100    \* 0.05 m

createWorld(width, height) ==
  [width |-> width, height |-> height, blocks |-> <<>>, blockTemplates |-> <<>>,
   selectedBlockId |-> Null, draggedBlockId |-> Null,
   dragOffset |-> [x |-> 0, y |-> 0], paused |-> FALSE]

addBlock(w, block) == [w EXCEPT !.blocks = Append(@, block)]

\* index of the first block with this id, 0 where the code gets undefined
getBlockById(w, blockId) ==
  IF \E i \in 1..Len(w.blocks) : w.blocks[i].id = blockId
  THEN CHOOSE i \in 1..Len(w.blocks) :
         /\ w.blocks[i].id = blockId
         /\ \A k \in 1..(i - 1) : w.blocks[k].id # blockId
  ELSE 0

\* startDrag once the block, block i, is found and is not static
beginDrag(w, i, blockId, mouseX, mouseY) ==
  [w EXCEPT !.draggedBlockId = blockId,
            !.dragOffset = [x |-> mouseX - w.blocks[i].x,
                            y |-> mouseY - w.blocks[i].y],
            !.blocks[i].isDragging = TRUE,
            !.blocks[i].vx = 0,
            !.blocks[i].vy = 0]

\* mutant: a static block is dragged like any other
startDrag_anyBlock(w, blockId, mouseX, mouseY) ==
  LET i == getBlockById(w, blockId) IN
  IF i = 0 THEN w
  ELSE beginDrag(w, i, blockId, mouseX, mouseY)

startDrag(w, blockId, mouseX, mouseY) ==
  LET i == getBlockById(w, blockId) IN
  IF i = 0 THEN w
  ELSE IF w.blocks[i].isStatic THEN w
  ELSE beginDrag(w, i, blockId, mouseX, mouseY)

\* mutant: the dragged block is moved but keeps the velocity it had
updateDrag_noVelocity(w, mouseX, mouseY, dt) ==
  IF w.draggedBlockId = Null THEN w
  ELSE
    LET i == getBlockById(w, w.draggedBlockId) IN
    IF i = 0 THEN w
    ELSE [w EXCEPT !.blocks[i].x = mouseX - w.dragOffset.x,
                   !.blocks[i].y = mouseY - w.dragOffset.y]

updateDrag(w, mouseX, mouseY, dt) ==
  IF w.draggedBlockId = Null THEN w
  ELSE
    LET i == getBlockById(w, w.draggedBlockId) IN
    IF i = 0 THEN w
    ELSE
      LET oldX == w.blocks[i].x
          oldY == w.blocks[i].y
          newX == mouseX - w.dragOffset.x
          newY == mouseY - w.dragOffset.y
      IN [w EXCEPT !.blocks[i].x = newX,
                   !.blocks[i].y = newY,
                   !.blocks[i].vx = IF dt > 0 THEN TDiv((newX - oldX) * 1000, dt) ELSE @,
                   !.blocks[i].vy = IF dt > 0 THEN TDiv((newY - oldY) * 1000, dt) ELSE @]

\* mutant: the released block is stopped
endDrag_stop(w) ==
  IF w.draggedBlockId = Null THEN w
  ELSE
    LET i == getBlockById(w, w.draggedBlockId) IN
    IF i = 0 THEN [w EXCEPT !.draggedBlockId = Null]
    ELSE [w EXCEPT !.blocks[i].isDragging = FALSE, !.blocks[i].vx = 0,
                   !.blocks[i].vy = 0, !.draggedBlockId = Null]

endDrag(w) ==
  IF w.draggedBlockId = Null THEN w
  ELSE
    LET i == getBlockById(w, w.draggedBlockId) IN
    IF i = 0 THEN [w EXCEPT !.draggedBlockId = Null]
    ELSE [w EXCEPT !.blocks[i].isDragging = FALSE, !.draggedBlockId = Null]

\* the sequence without its element at index
RemoveAt(seq, index) ==
  [k \in 1..(Len(seq) - 1) |-> IF k < index THEN seq[k] ELSE seq[k + 1]]

\* mutant: the removed block stays the dragged one
removeBlock_keepDrag(w, blockId) ==
  LET index == getBlockById(w, blockId) IN
  IF index = 0 THEN w
  ELSE [w EXCEPT !.blocks = RemoveAt(@, index),
                 !.selectedBlockId = IF @ = blockId THEN Null ELSE @]

\* removeBlock: findIndex, splice, and the two references cleared
removeBlock(w, blockId) ==
  LET index == getBlockById(w, blockId) IN
  IF index = 0 THEN w
  ELSE [w EXCEPT !.blocks = RemoveAt(@, index),
                 !.selectedBlockId = IF @ = blockId THEN Null ELSE @,
                 !.draggedBlockId = IF @ = blockId THEN Null ELSE @]

\* the test getBlockAt makes on one block: the point is inside its bounds, edges
\* included
ContainsPoint(block, x, y) ==
  /\ x >= block.x
  /\ x <= block.x + block.width
  /\ y >= block.y
  /\ y <= block.y + block.height

\* mutant: the loop runs from the first block to the last
RECURSIVE getBlockAtUp(_, _, _, _)
getBlockAtUp(w, x, y, i) ==
  IF i > Len(w.blocks) THEN 0
  ELSE IF ContainsPoint(w.blocks[i], x, y) THEN i
  ELSE getBlockAtUp(w, x, y, i + 1)

getBlockAt_firstInserted(w, x, y) == getBlockAtUp(w, x, y, 1)

\* the loop of getBlockAt from index i down: the index of the block returned, 0
\* for null
RECURSIVE getBlockAtDown(_, _, _, _)
getBlockAtDown(w, x, y, i) ==
  IF i < 1 THEN 0
  ELSE IF ContainsPoint(w.blocks[i], x, y) THEN i
  ELSE getBlockAtDown(w, x, y, i - 1)

getBlockAt(w, x, y) == getBlockAtDown(w, x, y, Len(w.blocks))

selectBlock(w, blockId) == [w EXCEPT !.selectedBlockId = blockId]

clearBlocks(w) ==
  [w EXCEPT !.blocks = <<>>, !.selectedBlockId = Null, !.draggedBlockId = Null]

\* JSON.parse on the payloads importTemplates is given: whether it throws, whether
\* the value it returns is an array, and the array's elements (each kept as its
\* JSON text)
JSONParse(jsonString) ==
  CASE jsonString = "[]" ->
         [threw |-> FALSE, isArray |-> TRUE, items |-> <<>>]
    [] jsonString = "[{\"width\":1,\"height\":0.5,\"mass\":2}]" ->
         [threw |-> FALSE, isArray |-> TRUE,
          items |-> <<"{\"width\":1,\"height\":0.5,\"mass\":2}">>]
    [] jsonString = "[1,2]" ->
         [threw |-> FALSE, isArray |-> TRUE, items |-> <<"1", "2">>]
    [] jsonString \in {"{\"blockTemplates\":[]}", "42", "null", "\"[]\""} ->
         [threw |-> FALSE, isArray |-> FALSE, items |-> <<>>]
    [] OTHER ->
         [threw |-> TRUE, isArray |-> FALSE, items |-> <<>>]

\* mutant: any value that parses is taken as the template list
importTemplates_unchecked(w, jsonString) ==
  LET templates == JSONParse(jsonString) IN
  IF templates.threw THEN [world |-> w, returned |-> FALSE, raised |-> FALSE]
  ELSE [world |-> [w EXCEPT !.blockTemplates = templates.items],
        returned |-> TRUE, raised |-> FALSE]

\* importTemplates: the world it leaves, the boolean it returns, and whether an
\* exception leaves it (the catch block takes every exception of JSON.parse)
importTemplates(w, jsonString) ==
  LET templates == JSONParse(jsonString) IN
  IF templates.threw THEN [world |-> w, returned |-> FALSE, raised |-> FALSE]
  ELSE IF templates.isArray
       THEN [world |-> [w EXCEPT !.blockTemplates = templates.items],
             returned |-> TRUE, raised |-> FALSE]
       ELSE [world |-> w, returned |-> FALSE, raised |-> FALSE]

\* the unordered pairs <<i, j>>, i < j <= n, in the order of the two nested loops
RECURSIVE PairsFrom(_, _, _)
PairsFrom(i, j, n) ==
  IF i >= n THEN <<>>
  ELSE IF j > n THEN PairsFrom(i + 1, i + 2, n)
  ELSE <<<<i, j>>>> \o PairsFrom(i, j + 1, n)

\* the body of the inner loop: check one pair, resolve it on a collision
collidePair(blocks, i, j) ==
  LET collision == checkCollision(blocks[i], blocks[j]) IN
  IF collision.hit
  THEN LET r == resolveCollision(blocks[i], blocks[j], collision)
       IN [blocks EXCEPT ![i] = r[1], ![j] = r[2]]
  ELSE blocks

\* one iteration of the collision loop over the pairs from the k-th on
RECURSIVE collisionPass(_, _, _)
collisionPass(blocks, pairs, k) ==
  IF k > Len(pairs) THEN blocks
  ELSE collisionPass(collidePair(blocks, pairs[k][1], pairs[k][2]), pairs, k + 1)

RECURSIVE collisionLoop(_, _)
collisionLoop(blocks, iter) ==
  IF iter >= COLLISION_ITERATIONS THEN blocks
  ELSE collisionLoop(collisionPass(blocks, PairsFrom(1, 2, Len(blocks)), 1), iter + 1)

\* step of a world that is not paused
runStep(w, dt) ==
    LET n == Len(w.blocks)
        g == [i \in 1..n |-> applyGravity(w.blocks[i], dt)]
        p == [i \in 1..n |-> updatePosition(g[i], dt)]
        c == collisionLoop(p, 0)
        k == [i \in 1..n |-> constrainToWorld(c[i], w.width, w.height)]
        d == [i \in 1..n |-> applyDamping(k[i])]
    IN [w EXCEPT !.blocks = d]

\* mutant: the paused flag is not read
step_whilePaused(w, dt) == runStep(w, dt)

step(w, dt) ==
  IF w.paused THEN w
  ELSE runStep(w, dt)

\* mutant: vertical contact alone makes a block rest on another
isBlockAbove_verticalOnly(upper, lower) ==
  Abs(getBounds(upper).bottom - getBounds(lower).top) < CONTACT_TOLERANCE

isBlockAbove(upper, lower) ==
  LET upperBounds == getBounds(upper)
      lowerBounds == getBounds(lower)
      verticalContact == Abs(upperBounds.bottom - lowerBounds.top) < CONTACT_TOLERANCE
      horizontalOverlap == /\ upperBounds.right > lowerBounds.left
                           /\ upperBounds.left < lowerBounds.right
  IN verticalContact /\ horizontalOverlap

\* the indices, in list order, of the blocks the filter keeps
findBlocksDirectlyAbove(w, block) ==
  SelectSeq([i \in 1..Len(w.blocks) |-> i],
            LAMBDA i : /\ w.blocks[i].id # block.id
                       /\ ~w.blocks[i].isStatic
                       /\ isBlockAbove(w.blocks[i], block))

\* <<stack, visited>>: the list returned (as block indices) and the visited set,
\* which the recursive calls share, as it is when the call returns
RECURSIVE findStackAboveRec(_, _, _)
RECURSIVE findStackAboveLoop(_, _, _, _)
findStackAboveRec(w, block, visited) ==
  IF block.id \in visited THEN <<<<>>, visited>>
  ELSE LET directlyAbove == findBlocksDirectlyAbove(w, block)
       IN findStackAboveLoop(w, directlyAbove, 1,
                             <<directlyAbove, visited \cup {block.id}>>)

findStackAboveLoop(w, directlyAbove, k, acc) ==
  IF k > Len(directlyAbove) THEN acc
  ELSE LET r == findStackAboveRec(w, w.blocks[directlyAbove[k]], acc[2])
       IN findStackAboveLoop(w, directlyAbove, k + 1, <<acc[1] \o r[1], r[2]>>)

findStackAbove(w, block) == findStackAboveRec(w, block, {})[1]

----------------------------------------------------------------------------
(* The calls the host and the tests make on one world *)

MaxBlocks == 3     \* blocks added to the world
MaxOps == 6        \* calls made on the world in one run

M(n) == (n * SCALE) \div 100      \* n centimetres, in units

WorldWidth == M(400)
WorldHeight == M(600)

\* the blocks addBlock is given: a static floor, a block resting on it and a
\* block resting on that one
Catalogue ==
  { createBlock("floor", 0, M(550), M(400), M(50), 1, 50, 20, 0, 0, TRUE),
    createBlock("base", M(100), M(500), M(50), M(50), 2, 100, 0, 0, 0, FALSE),
    createBlock("top", M(100), M(450), M(50), M(50), 1, 100, 20, 0, 0, FALSE) }

Ids == {b.id : b \in Catalogue} \cup {"ghost"}

\* pointer positions: where a drag starts, and where it is moved to (a little to
\* the right; left of the world and lower, into the floor)
StartPointers == { [x |-> M(125), y |-> M(500)] }
Pointers == { [x |-> M(127), y |-> M(500)], [x |-> -M(100), y |-> M(510)] }

DtSet == {0, 16}     \* milliseconds

\* a call: its name, its arguments (id, x, y, dt, i, j, json) and what it returned
\* (found: the index of the block getBlockAt returned, 0 for null; ok: the boolean
\* importTemplates returned; raised: whether the call ended in an exception; stack:
\* the list findStackAbove returned, as block ids)
NoOp == [op |-> "createWorld", id |-> Null, x |-> 0, y |-> 0, dt |-> 0, i |-> 0, j |-> 0,
         json |-> Null, found |-> 0, ok |-> FALSE, raised |-> FALSE, stack |-> <<>>]

\* no step is running
Idle == [phase |-> "idle", k |-> 0, iter |-> 0, dt |-> 0, trace |-> <<>>]

\* a call that leaves the world as w and the id counter at n
CallGen(w, op, n) ==
  /\ count < MaxOps
  /\ world' = w
  /\ prev' = world
  /\ lastOp' = op
  /\ count' = count + 1
  /\ idCounter' = n
  /\ pc' = pc

Call(w, op) == CallGen(w, op, idCounter)

Init ==
  /\ world = createWorld(WorldWidth, WorldHeight)
  /\ prev = world
  /\ lastOp = NoOp
  /\ count = 0
  /\ idCounter = 0
  /\ pc = Idle

AddBlock ==
  /\ Len(world.blocks) < MaxBlocks
  /\ \E b \in Catalogue :
       /\ \A i \in 1..Len(world.blocks) : world.blocks[i].id # b.id
       /\ Call(addBlock(world, b), [NoOp EXCEPT !.op = "addBlock", !.id = b.id])

StartDrag ==
  /\ \E id \in Ids, p \in StartPointers :
       Call(startDrag(world, id, p.x, p.y),
            [NoOp EXCEPT !.op = "startDrag", !.id = id, !.x = p.x, !.y = p.y])

UpdateDrag ==
  /\ \E p \in Pointers, dt \in DtSet :
       Call(updateDrag(world, p.x, p.y, dt),
            [NoOp EXCEPT !.op = "updateDrag", !.x = p.x, !.y = p.y, !.dt = dt])

EndDrag ==
  /\ Call(endDrag(world), [NoOp EXCEPT !.op = "endDrag"])

Step ==
  /\ \E dt \in DtSet :
       Call(step(world, dt), [NoOp EXCEPT !.op = "step", !.dt = dt])

\* dev-mode.js onTogglePause
TogglePause ==
  /\ Call([world EXCEPT !.paused = ~@], [NoOp EXCEPT !.op = "togglePause"])

\* checkCollision on one pair of the world's blocks, then resolveCollision with
\* its result, as the tests call them
ResolveCollision ==
  /\ \E i, j \in 1..Len(world.blocks) :
       /\ i < j
       /\ LET r == resolveCollision(world.blocks[i], world.blocks[j],
                                    checkCollision(world.blocks[i], world.blocks[j]))
          IN Call([world EXCEPT !.blocks[i] = r[1], !.blocks[j] = r[2]],
                  [NoOp EXCEPT !.op = "resolveCollision", !.i = i, !.j = j])

Next ==
  \/ AddBlock
  \/ StartDrag
  \/ UpdateDrag
  \/ EndDrag
  \/ Step
  \/ TogglePause
  \/ ResolveCollision

Spec == Init /\ [][Next]_vars

----------------------------------------------------------------------------
(* Properties of the calls on a world (Spec) *)

\* block i of w kept its position and velocity from w0
SameMotion(w0, w, i) ==
  /\ i <= Len(w.blocks)
  /\ w.blocks[i].id = w0.blocks[i].id
  /\ w.blocks[i].x = w0.blocks[i].x
  /\ w.blocks[i].y = w0.blocks[i].y
  /\ w.blocks[i].vx = w0.blocks[i].vx
  /\ w.blocks[i].vy = w0.blocks[i].vy

Inside(block, w) ==
  /\ 0 <= block.x
  /\ block.x + block.width <= w.width
  /\ 0 <= block.y
  /\ block.y + block.height <= w.height

\* C3: a static block's x, y, vx and vy are not changed by step, resolveCollision,
\* startDrag, updateDrag or endDrag, whatever the other blocks are and do.
C3_StaticInvariance ==
  lastOp.op \in {"step", "resolveCollision", "startDrag", "updateDrag", "endDrag"}
    => \A i \in 1..Len(prev.blocks) :
         prev.blocks[i].isStatic => SameMotion(prev, world, i)

\* a step in which a moving or dragged block ran into a static block and was
\* pushed out of it
C3_Witness ==
  /\ lastOp.op = "step"
  /\ ~prev.paused
  /\ \E i, j \in 1..Len(prev.blocks) :
       /\ prev.blocks[i].isStatic
       /\ ~prev.blocks[j].isStatic
       /\ checkCollision(prev.blocks[i],
                         updatePosition(applyGravity(prev.blocks[j], lastOp.dt),
                                        lastOp.dt)).hit
       /\ ~checkCollision(world.blocks[i], world.blocks[j]).hit

\* C5 (as claimed): each updateDrag applies to every block of the resting stack
\* above the dragged block (friction 1.0 throughout) the positional delta it
\* applies to the dragged block.
C5_StackFollowsDrag ==
  (lastOp.op = "updateDrag" /\ prev.draggedBlockId # Null
     /\ getBlockById(prev, prev.draggedBlockId) # 0)
    => LET d == getBlockById(prev, prev.draggedBlockId)
           stack == findStackAbove(prev, prev.blocks[d])
       IN \A n \in 1..Len(stack) :
            LET k == stack[n] IN
            (prev.blocks[d].friction = 100 /\ prev.blocks[k].friction = 100)
              => /\ world.blocks[k].x - prev.blocks[k].x
                      = world.blocks[d].x - prev.blocks[d].x
                 /\ world.blocks[k].y - prev.blocks[k].y
                      = world.blocks[d].y - prev.blocks[d].y

C9_PausedStepIsNoOp ==
  (lastOp.op = "step" /\ prev.paused) => world = prev

\* a step, with dt > 0, of a paused world holding a block that gravity would move
C9_Witness ==
  /\ lastOp.op = "step"
  /\ lastOp.dt > 0
  /\ prev.paused
  /\ \E i \in 1..Len(prev.blocks) :
       ~prev.blocks[i].isStatic /\ ~prev.blocks[i].isDragging

\* C10: startDrag with an id of no block, or with the id of a static block,
\* changes nothing: not draggedBlockId, not dragOffset, no block.
C10_StartDragRefused ==
  (lastOp.op = "startDrag"
     /\ \/ getBlockById(prev, lastOp.id) = 0
        \/ prev.blocks[getBlockById(prev, lastOp.id)].isStatic)
    => world = prev

\* startDrag on a static block, and on a missing id, while another drag is on
C10_Witness ==
  /\ lastOp.op = "startDrag"
  /\ prev.draggedBlockId # Null
  /\ getBlockById(prev, lastOp.id) # 0
  /\ prev.blocks[getBlockById(prev, lastOp.id)].isStatic
  /\ \E i \in 1..Len(prev.blocks) : prev.blocks[i].isDragging

\* the block being dragged when the last call was made: its index, 0 when none
DraggedBefore ==
  IF prev.draggedBlockId = Null THEN 0 ELSE getBlockById(prev, prev.draggedBlockId)

C12_EndDragKeepsVelocity ==
  lastOp.op = "endDrag"
    => IF prev.draggedBlockId = Null THEN world = prev
       ELSE /\ world.draggedBlockId = Null
            /\ DraggedBefore # 0
                 => /\ ~world.blocks[DraggedBefore].isDragging
                    /\ SameMotion(prev, world, DraggedBefore)

\* a block released while updateDrag had it moving
C12_Witness ==
  /\ lastOp.op = "endDrag"
  /\ DraggedBefore # 0
  /\ prev.blocks[DraggedBefore].isDragging
  /\ prev.blocks[DraggedBefore].vx # 0
  /\ ~world.blocks[DraggedBefore].isDragging

\* C19: no block of the world is both static and dragging.
C19_StaticNeverDragging ==
  \A i \in 1..Len(world.blocks) :
    ~(world.blocks[i].isStatic /\ world.blocks[i].isDragging)

\* startDrag was called on a static block while the world holds a dragged block
C19_Witness ==
  /\ lastOp.op = "startDrag"
  /\ getBlockById(world, lastOp.id) # 0
  /\ world.blocks[getBlockById(world, lastOp.id)].isStatic
  /\ \E i \in 1..Len(world.blocks) : world.blocks[i].isDragging
  /\ world.draggedBlockId # Null

\* C20 (as claimed): after updateDrag the dragged block's horizontal velocity is
\* below 10 m/s wherever the pointer is.
C20_DragVelocityLimited ==
  (lastOp.op = "updateDrag" /\ DraggedBefore # 0)
    => world.blocks[DraggedBefore].vx < 10 * SCALE

----------------------------------------------------------------------------
(* resolveCollision on one pair of blocks (SpecPair) *)

\* a block as startDrag or createBlock({isStatic: true}) leaves its flags
WithFlag(block, flag) ==
  [block EXCEPT !.isStatic = (flag = "static"), !.isDragging = (flag = "dragging")]

PairFlags == {"free", "static", "dragging"}

\* the first block of a pair: 0.5 m square at (1, 3)
PairFirst ==
  { WithFlag(createBlock("a", M(100), M(300), M(50), M(50), mass, 100, bounciness,
                         v[1], v[2], FALSE), flag) :
      mass \in {1, 3, 8}, bounciness \in {0, 100},
      v \in {<<0, 0>>, <<M(100), M(200)>>}, flag \in PairFlags }

\* the second block: above the first (a square landing), below it, beside it, on
\* its corner, on the same spot, clear of it, and side by side with it, edges
\* touching
PairSecond ==
  { WithFlag(createBlock("b", pos[1], pos[2], M(50), M(50), 2, friction, bounciness,
                         v[1], v[2], FALSE), flag) :
      pos \in { <<M(100), M(255)>>, <<M(110), M(340)>>, <<M(146), M(300)>>,
                <<M(60), M(296)>>, <<M(140), M(260)>>, <<M(100), M(300)>>,
                <<M(200), M(300)>>, <<M(150), M(300)>> },
      friction \in {0, 100}, bounciness \in {0, 50},
      v \in {<<0, 0>>, <<-M(100), M(200)>>, <<0, -M(200)>>}, flag \in PairFlags }

InitPair ==
  /\ \E a \in PairFirst, b \in PairSecond, order \in {"ab", "ba"} :
       /\ ~(a.isDragging /\ b.isDragging)
       /\ world = [createWorld(WorldWidth, WorldHeight) EXCEPT
                     !.blocks = IF order = "ab" THEN <<a, b>> ELSE <<b, a>>,
                     !.draggedBlockId = IF a.isDragging THEN a.id
                                        ELSE IF b.isDragging THEN b.id ELSE Null]
  /\ prev = world
  /\ lastOp = NoOp
  /\ count = MaxOps - 1      \* one call is made on each pair
  /\ idCounter = 0
  /\ pc = Idle

NextPair == ResolveCollision

SpecPair == InitPair /\ [][NextPair]_vars

\* the pair the last resolveCollision was called on, before and after the call,
\* and what checkCollision had returned for it
Resolved == lastOp.op = "resolveCollision"
Before1 == prev.blocks[lastOp.i]
Before2 == prev.blocks[lastOp.j]
After1 == world.blocks[lastOp.i]
After2 == world.blocks[lastOp.j]
Contact == checkCollision(Before1, Before2)
Free(block) == ~block.isStatic /\ ~block.isDragging

\* C1 (as claimed): when the horizontal overlap is larger than the vertical one,
\* resolveCollision leaves the x of both blocks unchanged, and a free top block that
\* was moving down onto a static block, with effective bounciness > 0, ends with
\* vy < 0.
C1_SquareLandingVertical ==
  (Resolved /\ Contact.hit /\ ~(Before1.isStatic /\ Before2.isStatic)
     /\ Contact.overlapX > Contact.overlapY)
    => /\ After1.x = Before1.x
       /\ After2.x = Before2.x
       /\ (Contact.dirY = -1 /\ Free(Before1) /\ Before1.vy > 0 /\ Before2.vy <= 0
             /\ Before2.isStatic /\ getEffectiveBounciness(Before1, Before2) > 0)
            => After1.vy < 0
       /\ (Contact.dirY = 1 /\ Free(Before2) /\ Before2.vy > 0 /\ Before1.vy <= 0
             /\ Before1.isStatic /\ getEffectiveBounciness(Before1, Before2) > 0)
            => After2.vy < 0

\* C2: after resolveCollision on a colliding pair that is not both static,
\* checkCollision on the pair reports no collision.
C2_NoResidualOverlap ==
  (Resolved /\ Contact.hit /\ ~(Before1.isStatic /\ Before2.isStatic))
    => ~checkCollision(After1, After2).hit

\* two free blocks that collided and were each moved half the overlap
C2_Witness ==
  /\ Resolved
  /\ Contact.hit
  /\ Free(Before1) /\ Free(Before2)
  /\ After1.x # Before1.x /\ After2.x # Before2.x
  /\ ~checkCollision(After1, After2).hit

\* the relative velocity of a pair along its separation axis, the axis of the
\* smaller overlap (the y axis when the overlaps are equal, as applyFriction has it)
RelativeSpeed(block1, block2, c) ==
  IF c.overlapX < c.overlapY THEN Abs(block1.vx - block2.vx)
  ELSE Abs(block1.vy - block2.vy)

\* C4: for bounciness <= 1, resolveCollision never makes the relative velocity
\* along the separation axis larger in magnitude, a static or dragging block
\* included.
C4_NoAmplification ==
  (Resolved /\ Contact.hit /\ Before1.bounciness <= 100 /\ Before2.bounciness <= 100)
    => RelativeSpeed(After1, After2, Contact) <= RelativeSpeed(Before1, Before2, Contact)

\* a free block that ran into a dragged one and was given an impulse
C4_Witness ==
  /\ Resolved
  /\ Contact.hit
  /\ Before1.isDragging \/ Before2.isDragging
  /\ RelativeSpeed(Before1, Before2, Contact) > 0
  /\ RelativeSpeed(After1, After2, Contact) < RelativeSpeed(Before1, Before2, Contact)

\* two free blocks of friction 1.0 in vertical contact (the vertical overlap the
\* smaller one), one of them moving horizontally and the other not
FrictionTransferCase ==
  /\ Resolved
  /\ Contact.hit
  /\ Contact.overlapX > Contact.overlapY
  /\ Free(Before1) /\ Free(Before2)
  /\ Before1.friction = 100 /\ Before2.friction = 100
  /\ (Before1.vx = 0) # (Before2.vx = 0)

\* C15: in that case the two horizontal velocities after resolveCollision differ by
\* at most a tenth of the speed v the moving block had, whatever the masses.
C15_FrictionEqualizes ==
  FrictionTransferCase
    => 10 * Abs(After1.vx - After2.vx) <= Abs(Before1.vx + Before2.vx)

\* blocks of different mass, the lower one moving: both end with the same
\* horizontal velocity, which is not zero
C15_Witness ==
  /\ FrictionTransferCase
  /\ Before1.mass # Before2.mass
  /\ Contact.dirY = -1
  /\ Before1.vx = 0
  /\ After1.vx # 0
  /\ Abs(After1.vx - After2.vx) <= 1

\* the displacement resolveCollision gave the two blocks
Moved1 == [x |-> After1.x - Before1.x, y |-> After1.y - Before1.y]
Moved2 == [x |-> After2.x - Before2.x, y |-> After2.y - Before2.y]

\* a displacement that takes up the whole overlap: on each axis nothing or the
\* overlap on that axis, and not nothing on both
FullOverlap(moved) ==
  /\ Abs(moved.x) \in {0, Contact.overlapX}
  /\ Abs(moved.y) \in {0, Contact.overlapY}
  /\ moved.x # 0 \/ moved.y # 0

\* C21 (as claimed): when exactly one block of a colliding pair is static or
\* dragging, resolveCollision leaves that block's x and y unchanged and the other
\* block is moved by the full overlap; when both are free each is moved by half
\* the overlap, in opposite directions.
C21_ImmovableInSeparation ==
  (Resolved /\ Contact.hit)
    => /\ (~Free(Before1) /\ Free(Before2))
            => Moved1.x = 0 /\ Moved1.y = 0 /\ FullOverlap(Moved2)
       /\ (Free(Before1) /\ ~Free(Before2))
            => Moved2.x = 0 /\ Moved2.y = 0 /\ FullOverlap(Moved1)
       /\ (Free(Before1) /\ Free(Before2))
            => /\ Moved1.x = -Moved2.x /\ Moved1.y = -Moved2.y
               /\ FullOverlap([x |-> 2 * Moved1.x, y |-> 2 * Moved1.y])

\* the pair after the separation and impulse steps of resolveCollision, as the
\* friction step finds it
BeforeFriction ==
  LET s == separateBlocks(Before1, Before2, Contact.overlapX, Contact.overlapY,
                          Contact.dirX, Contact.dirY)
  IN applyImpulse(s[1], s[2], Contact.dirX, Contact.dirY)

\* a block's velocity along the tangent axis of the contact
Tangential(block) ==
  IF Contact.overlapX < Contact.overlapY THEN block.vy ELSE block.vx

\* the friction impulse: relative tangential velocity times the effective friction
FrictionImpulse ==
  TDiv((Tangential(BeforeFriction[1]) - Tangential(BeforeFriction[2]))
         * getEffectiveFriction(Before1, Before2), 200)

\* C22 (as claimed): the friction step takes the whole friction impulse from the
\* tangential velocity of the one movable block when the other is static or
\* dragging, and half of it from each when both are movable (block 1 loses it,
\* block 2 gains it; one unit of rounding allowed).
C22_FrictionShare ==
  (Resolved /\ Contact.hit /\ ~(Before1.isStatic /\ Before2.isStatic))
    => LET d1 == Tangential(After1) - Tangential(BeforeFriction[1])
           d2 == Tangential(After2) - Tangential(BeforeFriction[2])
       IN /\ (Free(Before1) /\ ~Free(Before2)) => Abs(d1 + FrictionImpulse) <= 1
          /\ (~Free(Before1) /\ Free(Before2)) => Abs(d2 - FrictionImpulse) <= 1
          /\ (Free(Before1) /\ Free(Before2))
               => /\ Abs(2 * d1 + FrictionImpulse) <= 2
                  /\ Abs(2 * d2 - FrictionImpulse) <= 2

\* C23 (as claimed): when both blocks are free and their masses differ, the
\* heavier one is displaced less, each by overlap * (1/m) / (1/m1 + 1/m2) on an
\* axis it is moved along.
C23_InverseMassSeparation ==
  (Resolved /\ Contact.hit /\ Free(Before1) /\ Free(Before2)
     /\ Before1.mass # Before2.mass)
    => LET total == Before1.mass + Before2.mass
       IN /\ Before1.mass > Before2.mass
               => Abs(Moved1.x) + Abs(Moved1.y) < Abs(Moved2.x) + Abs(Moved2.y)
          /\ Before1.mass < Before2.mass
               => Abs(Moved1.x) + Abs(Moved1.y) > Abs(Moved2.x) + Abs(Moved2.y)
          /\ Moved1.x # 0
               => Abs(Abs(Moved1.x) * total - Contact.overlapX * Before2.mass) <= total
          /\ Moved1.y # 0
               => Abs(Abs(Moved1.y) * total - Contact.overlapY * Before2.mass) <= total

\* mass * v^2 in units of SCALE (fixed-point units)^2, rounded down; v is split in
\* two so that no product leaves the integer range
KineticUnits(mass, v) ==
  LET h == Abs(v) \div 100
      l == Abs(v) % 100
  IN mass * h * h + (mass * (200 * h * l + l * l)) \div SCALE

\* twice the kinetic energy of a block, in those units
Energy2(block) == KineticUnits(block.mass, block.vx) + KineticUnits(block.mass, block.vy)

\* C24 (as claimed): for two free blocks with bounciness <= 1 and friction <= 1
\* the kinetic energy of the pair after resolveCollision is at most what it was
\* before the call (a rounding allowance of SCALE / 10 units, 0.05 J, is given).
C24_NoEnergyCreated ==
  (Resolved /\ Contact.hit /\ Free(Before1) /\ Free(Before2)
     /\ Before1.bounciness <= 100 /\ Before2.bounciness <= 100
     /\ Before1.friction <= 100 /\ Before2.friction <= 100)
    => Energy2(After1) + Energy2(After2)
         <= Energy2(Before1) + Energy2(Before2) + SCALE \div 10

\* C27: checkCollision reports no contact exactly when the rectangles fail to
\* overlap by a positive amount on some axis (touching edges are no contact);
\* otherwise both overlaps are positive, each the smaller of the two edge
\* distances, and each direction is -1 when block 1's centre is the lower
\* coordinate and +1 when it is the higher or the same.
C27_CheckCollisionContract ==
  Resolved
    => LET b1 == getBounds(Before1)
           b2 == getBounds(Before2)
           apart == \/ b1.right <= b2.left \/ b2.right <= b1.left
                    \/ b1.bottom <= b2.top \/ b2.bottom <= b1.top
       IN /\ Contact.hit <=> ~apart
          /\ Contact.hit
               => /\ Contact.overlapX > 0 /\ Contact.overlapY > 0
                  /\ Contact.overlapX \in {b1.right - b2.left, b2.right - b1.left}
                  /\ Contact.overlapX <= b1.right - b2.left
                  /\ Contact.overlapX <= b2.right - b1.left
                  /\ Contact.overlapY \in {b1.bottom - b2.top, b2.bottom - b1.top}
                  /\ Contact.overlapY <= b1.bottom - b2.top
                  /\ Contact.overlapY <= b2.bottom - b1.top
                  /\ Contact.dirX = (IF getCenter(Before1).x < getCenter(Before2).x
                                     THEN -1 ELSE 1)
                  /\ Contact.dirY = (IF getCenter(Before1).y < getCenter(Before2).y
                                     THEN -1 ELSE 1)

\* two blocks side by side whose edges touch: no contact was reported
C27_Witness ==
  /\ Resolved
  /\ getBounds(Before1).right = getBounds(Before2).left
  /\ Before1.y = Before2.y
  /\ ~Contact.hit
  /\ world = prev

----------------------------------------------------------------------------
(* constrainToWorld on one block (SpecConstrain) *)

\* blocks inside the world and across each wall and corner of it, moving either way
ConstrainBlocks ==
  { WithFlag(createBlock("c", x, y, M(50), M(50), 1, friction, bounciness,
                         vx, vy, FALSE), flag) :
      x \in {-M(10), M(100), M(360)}, y \in {-M(10), M(100), M(560)},
      vx \in {-M(100), 0, M(100)}, vy \in {-M(100), 0, M(100)},
      friction \in {0, 50}, bounciness \in {0, 50, 100}, flag \in PairFlags }

InitConstrain ==
  /\ \E c \in ConstrainBlocks :
       world = [createWorld(WorldWidth, WorldHeight) EXCEPT
                  !.blocks = <<c>>,
                  !.draggedBlockId = IF c.isDragging THEN c.id ELSE Null]
  /\ prev = world
  /\ lastOp = NoOp
  /\ count = MaxOps - 1      \* one call is made on each block
  /\ idCounter = 0
  /\ pc = Idle

\* constrainToWorld on one block of the world, as the tests call it
ConstrainToWorld ==
  \E i \in 1..Len(world.blocks) :
    Call([world EXCEPT !.blocks[i] = constrainToWorld(@, world.width, world.height)],
         [NoOp EXCEPT !.op = "constrainToWorld", !.i = i])

NextConstrain == ConstrainToWorld

SpecConstrain == InitConstrain /\ [][NextConstrain]_vars

\* the block the last constrainToWorld was called on, before and after the call
Constrained == lastOp.op = "constrainToWorld"
OutLeft(block) == block.x < 0
OutRight(block, w) == block.x + block.width > w.width
OutTop(block) == block.y < 0
OutBottom(block, w) == block.y + block.height > w.height

\* C7 (as claimed): a non-static block outside the world is, after
\* constrainToWorld, fully inside, and its velocity along each violated axis is the
\* old one with its sign flipped, times the block's bounciness.
C7_ClampFlipsVelocity ==
  (Constrained /\ ~Before1.isStatic /\ ~Inside(Before1, prev))
    => /\ Inside(After1, world)
       /\ (OutLeft(Before1) \/ OutRight(Before1, prev))
            => 100 * After1.vx = -(Before1.vx * Before1.bounciness)
       /\ (OutTop(Before1) \/ OutBottom(Before1, prev))
            => 100 * After1.vy = -(Before1.vy * Before1.bounciness)

\* C7 (amended): a non-static block outside the world is, after constrainToWorld,
\* fully inside, and its velocity along each violated axis points away from the
\* wall crossed (0 included), with the old magnitude times the block's bounciness;
\* vx is multiplied by (1 - 0.1 * friction) as well when the floor is crossed.
C7_ClampReflectsInward ==
  (Constrained /\ ~Before1.isStatic /\ ~Inside(Before1, prev))
    => LET speedX == Abs(Before1.vx) * Before1.bounciness
           speedY == Abs(Before1.vy) * Before1.bounciness
           grip == IF OutBottom(Before1, prev) THEN 1000 - Before1.friction ELSE 1000
       IN /\ Inside(After1, world)
          /\ OutLeft(Before1) => 100000 * After1.vx = speedX * grip
          /\ OutRight(Before1, prev) => 100000 * After1.vx = -(speedX * grip)
          /\ OutTop(Before1) => 100 * After1.vy = speedY
          /\ OutBottom(Before1, prev) => 100 * After1.vy = -speedY

\* a block across the left wall and the floor that was already moving back in:
\* it keeps moving right, slowed by bounciness and by the floor's friction
C7_Witness ==
  /\ Constrained
  /\ ~Before1.isStatic
  /\ OutLeft(Before1) /\ OutBottom(Before1, prev)
  /\ Before1.vx > 0 /\ Before1.friction > 0
  /\ After1.vx > 0 /\ After1.vx < Before1.vx
  /\ Inside(After1, world)

----------------------------------------------------------------------------
(* One block at rest on a static floor, stepped (SpecSettle) *)

SettleTolerance == M(1)      \* 0.01 m

\* where the block at rest starts, by its id
SettleX == [r0 |-> 0, r100 |-> M(100), r350 |-> M(350)]

\* the static floor block, and the block at rest: on the floor block at y = 5, or
\* with no floor block on the bottom of the world at y = 5.5
SettleFloor == createBlock("floor", 0, M(550), M(400), M(50), 1, 50, 20, 0, 0, TRUE)
SettleBlock(id, onFloorBlock, bounciness) ==
  createBlock(id, SettleX[id], IF onFloorBlock THEN M(500) ELSE M(550),
              M(50), M(50), 1, 50, bounciness, 0, 0, FALSE)

InitSettle ==
  /\ \E id \in DOMAIN SettleX, bounciness \in {0, 20, 50},
        layout \in {"floor first", "block first", "no floor block"} :
       world = [createWorld(WorldWidth, WorldHeight) EXCEPT !.blocks =
                  IF layout = "floor first"
                    THEN <<SettleFloor, SettleBlock(id, TRUE, bounciness)>>
                  ELSE IF layout = "block first"
                    THEN <<SettleBlock(id, TRUE, bounciness), SettleFloor>>
                  ELSE <<SettleBlock(id, FALSE, bounciness)>>]
  /\ prev = world
  /\ lastOp = NoOp
  /\ count = 0
  /\ idCounter = 0
  /\ pc = Idle

NextSettle == Step

SpecSettle == InitSettle /\ [][NextSettle]_vars

\* C6 (as claimed): a single non-static block that starts at rest on a static
\* floor has, after any number of steps, both velocity components within the
\* sleep threshold of zero and its position within the tolerance of where it began.
C6_StaysSettled ==
  \A i \in 1..Len(world.blocks) :
    ~world.blocks[i].isStatic
      => /\ Abs(world.blocks[i].vx) <= SLEEP_THRESHOLD
         /\ Abs(world.blocks[i].vy) <= SLEEP_THRESHOLD
         /\ Abs(world.blocks[i].x - SettleX[world.blocks[i].id]) <= SettleTolerance
         /\ Abs(world.blocks[i].y - (IF Len(world.blocks) = 2 THEN M(500) ELSE M(550)))
              <= SettleTolerance

----------------------------------------------------------------------------
(* Blocks added, removed, selected and dragged (SpecLife) *)

\* dev-mode.js onDeleteBlock, and removeBlock as the tests call it
RemoveBlock ==
  /\ \E id \in Ids :
       Call(removeBlock(world, id), [NoOp EXCEPT !.op = "removeBlock", !.id = id])

ClearBlocks ==
  /\ Call(clearBlocks(world), [NoOp EXCEPT !.op = "clearBlocks"])

\* selectBlock with an id or with null
SelectBlock ==
  /\ \E id \in Ids \cup {Null} :
       Call(selectBlock(world, id), [NoOp EXCEPT !.op = "selectBlock", !.id = id])

NextLife ==
  \/ AddBlock
  \/ RemoveBlock
  \/ ClearBlocks
  \/ SelectBlock
  \/ StartDrag
  \/ UpdateDrag
  \/ EndDrag
  \/ Step

SpecLife == Init /\ [][NextLife]_vars

\* id is null or the id of a block of w
LiveOrNone(w, id) == id = Null \/ getBlockById(w, id) # 0

\* C13: draggedBlockId is none or the id of a block in world.blocks; removeBlock
\* of the dragged block leaves it none.
C13_DraggedIsLive ==
  /\ LiveOrNone(world, world.draggedBlockId)
  /\ (lastOp.op = "removeBlock" /\ lastOp.id = prev.draggedBlockId)
       => world.draggedBlockId = Null

\* the dragged block was removed from a world that keeps another block
C13_Witness ==
  /\ lastOp.op = "removeBlock"
  /\ prev.draggedBlockId = lastOp.id
  /\ getBlockById(prev, lastOp.id) # 0
  /\ Len(world.blocks) > 0
  /\ world.draggedBlockId = Null

\* C14 (as claimed): selectedBlockId is none or the id of a block in world.blocks.
C14_SelectedIsLive == LiveOrNone(world, world.selectedBlockId)

\* C30 (as claimed): a block of the world is dragging exactly when its id is
\* draggedBlockId, and after endDrag no block of the world is dragging.
C30_DraggingIffDragged ==
  /\ \A i \in 1..Len(world.blocks) :
       world.blocks[i].isDragging <=> (world.blocks[i].id = world.draggedBlockId)
  /\ lastOp.op = "endDrag"
       => \A i \in 1..Len(world.blocks) : ~world.blocks[i].isDragging

----------------------------------------------------------------------------
(* Point queries and template import (SpecQuery) *)

\* the points asked about: on the edge the top and base blocks share, on the edge
\* the base block and the floor share, inside the top block, and in empty space
QueryPoints ==
  { [x |-> M(125), y |-> M(500)], [x |-> M(125), y |-> M(550)],
    [x |-> M(125), y |-> M(475)], [x |-> M(300), y |-> M(100)] }

\* the file contents handed to importTemplates: lists, values that are not lists,
\* and text that is not JSON
JsonPayloads ==
  { "[]", "[{\"width\":1,\"height\":0.5,\"mass\":2}]", "[1,2]",
    "{\"blockTemplates\":[]}", "42", "null", "\"[]\"",
    "[1,2", "", "not json" }

\* dev-mode.js onMouseDown: the block under the pointer is looked up
GetBlockAt ==
  /\ \E p \in QueryPoints :
       Call(world, [NoOp EXCEPT !.op = "getBlockAt", !.x = p.x, !.y = p.y,
                                !.found = getBlockAt(world, p.x, p.y)])

\* dev-mode.js onImportJSON
ImportTemplates ==
  /\ \E json \in JsonPayloads :
       LET r == importTemplates(world, json)
       IN Call(r.world, [NoOp EXCEPT !.op = "importTemplates", !.json = json,
                                     !.ok = r.returned, !.raised = r.raised])

NextQuery ==
  \/ AddBlock
  \/ StartDrag
  \/ UpdateDrag
  \/ GetBlockAt
  \/ ImportTemplates

SpecQuery == Init /\ [][NextQuery]_vars

\* the indices of the blocks of w whose bounds contain the point
BlocksAtPoint(w, x, y) ==
  { i \in 1..Len(w.blocks) :
      /\ getBounds(w.blocks[i]).left <= x /\ x <= getBounds(w.blocks[i]).right
      /\ getBounds(w.blocks[i]).top <= y /\ y <= getBounds(w.blocks[i]).bottom }

\* C16: getBlockAt returns the latest inserted of the blocks whose bounds contain
\* the point, null exactly when there is none, and changes nothing.
C16_GetBlockAtTopmost ==
  lastOp.op = "getBlockAt"
    => LET hits == BlocksAtPoint(prev, lastOp.x, lastOp.y)
       IN /\ world = prev
          /\ (lastOp.found = 0) <=> (hits = {})
          /\ hits # {} => /\ lastOp.found \in hits
                          /\ \A i \in hits : i <= lastOp.found

\* a point that two blocks contain: the later inserted one was returned
C16_Witness ==
  /\ lastOp.op = "getBlockAt"
  /\ lastOp.found > 1
  /\ \E i \in BlocksAtPoint(prev, lastOp.x, lastOp.y) : i < lastOp.found

\* C17: importTemplates raises nothing; it returns true, with blockTemplates
\* replaced by the parsed list, when the payload parses to a list, and otherwise
\* returns false with the world unchanged.
C17_ImportAllOrNothing ==
  lastOp.op = "importTemplates"
    => /\ ~lastOp.raised
       /\ lastOp.ok \in BOOLEAN
       /\ IF ~JSONParse(lastOp.json).threw /\ JSONParse(lastOp.json).isArray
          THEN /\ lastOp.ok
               /\ world = [prev EXCEPT !.blockTemplates = JSONParse(lastOp.json).items]
          ELSE /\ ~lastOp.ok
               /\ world = prev

\* a payload that is valid JSON but no list was refused by a world that holds
\* imported templates and a block
C17_Witness ==
  /\ lastOp.op = "importTemplates"
  /\ ~JSONParse(lastOp.json).threw
  /\ ~JSONParse(lastOp.json).isArray
  /\ ~lastOp.ok
  /\ Len(prev.blockTemplates) > 0
  /\ Len(prev.blocks) > 0
  /\ world.blockTemplates = prev.blockTemplates

----------------------------------------------------------------------------
(* Blocks created with generated ids (SpecIds) *)

\* the widths the block form offers
FormWidths == {M(50), M(100)}

\* dev-mode.js onCreateBlock: createBlock without an id, addBlock, selectBlock
CreateBlock ==
  /\ Len(world.blocks) < MaxBlocks
  /\ \E width \in FormWidths :
       LET g == generateId(idCounter)
           block == createBlock(g.id, (world.width - width) \div 2, M(50), width, M(50),
                                1, 50, 20, 0, 0, FALSE)
       IN CallGen(selectBlock(addBlock(world, block), block.id),
                  [NoOp EXCEPT !.op = "createBlock", !.id = g.id], g.idCounter)

\* cloneBlock of a block of the world, the copy added to the world
CloneBlock ==
  /\ Len(world.blocks) < MaxBlocks
  /\ \E i \in 1..Len(world.blocks) :
       LET c == cloneBlock(world.blocks[i], idCounter)
       IN CallGen(addBlock(world, c.block),
                  [NoOp EXCEPT !.op = "cloneBlock", !.id = c.block.id, !.i = i],
                  c.idCounter)

ResetIdCounter ==
  /\ CallGen(world, [NoOp EXCEPT !.op = "resetIdCounter"], resetIdCounter)

\* dev-mode.js onDeleteBlock
DeleteBlock ==
  /\ world.selectedBlockId # Null
  /\ Call(removeBlock(world, world.selectedBlockId),
          [NoOp EXCEPT !.op = "removeBlock", !.id = world.selectedBlockId])

NextIds ==
  \/ CreateBlock
  \/ CloneBlock
  \/ ResetIdCounter
  \/ DeleteBlock

SpecIds == Init /\ [][NextIds]_vars

\* C18 (as claimed): an id generated by createBlock or cloneBlock is the id of no
\* block that was in the world when it was generated.
C18_GeneratedIdIsFresh ==
  lastOp.op \in {"createBlock", "cloneBlock"}
    => \A i \in 1..Len(prev.blocks) : prev.blocks[i].id # lastOp.id

----------------------------------------------------------------------------
(* One step, loop body by loop body (SpecPhases) *)

\* mutant: damping is the first loop of step, not the last
PhaseAfter_dampFirst(phase) ==
  CASE phase = "damp" -> "gravity"
    [] phase = "gravity" -> "integrate"
    [] phase = "integrate" -> "collide"
    [] phase = "collide" -> "constrain"
    [] OTHER -> "idle"

\* the loop of step that follows the loop named phase; idle after the last one
PhaseAfter(phase) ==
  CASE phase = "gravity" -> "integrate"
    [] phase = "integrate" -> "collide"
    [] phase = "collide" -> "constrain"
    [] phase = "constrain" -> "damp"
    [] OTHER -> "idle"

\* the first loop of step
FirstPhase == CHOOSE phase \in {"gravity", "integrate", "collide", "constrain", "damp"} :
                \A other \in {"gravity", "integrate", "collide", "constrain", "damp"} :
                  PhaseAfter(other) # phase

\* how many times the body of a loop runs on n blocks: once per block, or once per
\* pair i < j
LoopLength(phase, n) == IF phase = "collide" THEN Len(PairsFrom(1, 2, n)) ELSE n

\* the position p moved on past every loop that has nothing left to do: to the
\* next collision iteration, to the next loop, or out of step
RECURSIVE Settle(_, _)
Settle(p, n) ==
  IF p.phase = "idle" THEN p
  ELSE IF p.k <= LoopLength(p.phase, n) THEN p
  ELSE IF p.phase = "collide" /\ p.iter + 1 < COLLISION_ITERATIONS
       THEN Settle([p EXCEPT !.k = 1, !.iter = @ + 1], n)
  ELSE Settle([p EXCEPT !.phase = PhaseAfter(p.phase), !.k = 1, !.iter = 0], n)

\* the position after the body of the current loop ran on block i (on the pair
\* i, j), the run noted in the trace
AfterBody(i, j) ==
  Settle([pc EXCEPT !.k = @ + 1,
                    !.trace = Append(@, [phase |-> pc.phase, i |-> i, j |-> j,
                                         iter |-> pc.iter])],
         Len(world.blocks))

\* blocks in motion: a static floor, a block with a residual drift, a block
\* falling into it, and a block flying at 150 m/s towards the right wall
PhaseCatalogue ==
  { createBlock("floor", 0, M(550), M(400), M(50), 1, 50, 20, 0, 0, TRUE),
    createBlock("base", M(100), M(500), M(50), M(50), 2, 100, 0, 5, 0, FALSE),
    createBlock("top", M(110), M(455), M(50), M(50), 1, 100, 20, 0, M(200), FALSE),
    createBlock("fast", M(300), M(100), M(50), M(50), 1, 50, 100, M(15000), 0, FALSE) }

\* the block lists: up to MaxBlocks different blocks in any order
PhaseBlockLists ==
  { list \in UNION { [1..n -> PhaseCatalogue] : n \in 0..MaxBlocks } :
      \A i, j \in DOMAIN list : i # j => list[i] # list[j] }

InitPhases ==
  /\ \E list \in PhaseBlockLists, paused \in BOOLEAN :
       world = [createWorld(WorldWidth, WorldHeight) EXCEPT !.blocks = list,
                                                            !.paused = paused]
  /\ prev = world
  /\ lastOp = NoOp
  /\ count = MaxOps - 2      \* two steps are made on each world
  /\ idCounter = 0
  /\ pc = Idle

\* step is called: it returns at once when paused, else it enters its first loop
StepBegin ==
  /\ pc.phase = "idle"
  /\ count < MaxOps
  /\ \E dt \in DtSet :
       /\ lastOp' = [NoOp EXCEPT !.op = "step", !.dt = dt]
       /\ pc' = IF world.paused THEN [Idle EXCEPT !.dt = dt]
                ELSE Settle([Idle EXCEPT !.phase = FirstPhase, !.k = 1, !.dt = dt],
                            Len(world.blocks))
  /\ prev' = world
  /\ count' = count + 1
  /\ UNCHANGED <<world, idCounter>>

StepGravity ==
  /\ pc.phase = "gravity"
  /\ world' = [world EXCEPT !.blocks[pc.k] = applyGravity(@, pc.dt)]
  /\ pc' = AfterBody(pc.k, 0)
  /\ UNCHANGED <<prev, lastOp, count, idCounter>>

StepIntegrate ==
  /\ pc.phase = "integrate"
  /\ world' = [world EXCEPT !.blocks[pc.k] = updatePosition(@, pc.dt)]
  /\ pc' = AfterBody(pc.k, 0)
  /\ UNCHANGED <<prev, lastOp, count, idCounter>>

StepCollide ==
  /\ pc.phase = "collide"
  /\ LET pair == PairsFrom(1, 2, Len(world.blocks))[pc.k]
     IN /\ world' = [world EXCEPT !.blocks = collidePair(@, pair[1], pair[2])]
        /\ pc' = AfterBody(pair[1], pair[2])
  /\ UNCHANGED <<prev, lastOp, count, idCounter>>

StepConstrain ==
  /\ pc.phase = "constrain"
  /\ world' = [world EXCEPT
                 !.blocks[pc.k] = constrainToWorld(@, world.width, world.height)]
  /\ pc' = AfterBody(pc.k, 0)
  /\ UNCHANGED <<prev, lastOp, count, idCounter>>

StepDamp ==
  /\ pc.phase = "damp"
  /\ world' = [world EXCEPT !.blocks[pc.k] = applyDamping(@)]
  /\ pc' = AfterBody(pc.k, 0)
  /\ UNCHANGED <<prev, lastOp, count, idCounter>>

NextPhases ==
  \/ StepBegin
  \/ StepGravity
  \/ StepIntegrate
  \/ StepCollide
  \/ StepConstrain
  \/ StepDamp

SpecPhases == InitPhases /\ [][NextPhases]_vars

\* the place of a loop in the order the phases are claimed to have
PhaseRank(phase) ==
  CASE phase = "gravity" -> 1
    [] phase = "integrate" -> 2
    [] phase = "collide" -> 3
    [] phase = "constrain" -> 4
    [] phase = "damp" -> 5

\* a step that was not paused has run to its end
StepDone == pc.phase = "idle" /\ lastOp.op = "step" /\ ~prev.paused

\* the step has run to its end, or a loop body of this rank or a later one has run
PhaseReached(rank) ==
  StepDone \/ \E p \in 1..Len(pc.trace) : PhaseRank(pc.trace[p].phase) >= rank

\* how many times the body of a loop has run on block i (on the pair i, j) in
\* iteration iter
Runs(phase, i, j, iter) ==
  Cardinality({ p \in 1..Len(pc.trace) :
                  pc.trace[p] = [phase |-> phase, i |-> i, j |-> j, iter |-> iter] })

\* the loop has run exactly once on every block
OncePerBlock(phase) == \A i \in 1..Len(world.blocks) : Runs(phase, i, 0, 0) = 1

\* C25: within a step that is not paused, gravity has been applied to every block
\* before any position is integrated, every position is integrated before the
\* first collision check, each of exactly 4 collision iterations visits every pair
\* i < j exactly once, and the boundary constraint and then damping run on every
\* block only after the last iteration; the world the loops leave is the world
\* step returns.
C25_PhasesInOrder ==
  /\ \A p, q \in 1..Len(pc.trace) :
       p < q => /\ PhaseRank(pc.trace[p].phase) <= PhaseRank(pc.trace[q].phase)
                /\ (pc.trace[p].phase = "collide" /\ pc.trace[q].phase = "collide")
                     => pc.trace[p].iter <= pc.trace[q].iter
  /\ \A p \in 1..Len(pc.trace) :
       pc.trace[p].phase = "collide"
         => /\ pc.trace[p].iter \in 0..3
            /\ pc.trace[p].i < pc.trace[p].j
            /\ Runs("collide", pc.trace[p].i, pc.trace[p].j, pc.trace[p].iter) = 1
  /\ PhaseReached(2) => OncePerBlock("gravity")
  /\ PhaseReached(3) => OncePerBlock("integrate")
  /\ PhaseReached(4)
       => \A iter \in 0..3 : \A i, j \in 1..Len(world.blocks) :
            i < j => Runs("collide", i, j, iter) = 1
  /\ PhaseReached(5) => OncePerBlock("constrain")
  /\ StepDone => /\ OncePerBlock("damp")
                 /\ world = step(prev, lastOp.dt)

\* a step over three blocks has run to its end: 12 collision checks were made
C25_Witness ==
  /\ StepDone
  /\ lastOp.dt > 0
  /\ Len(world.blocks) = 3
  /\ Cardinality({ p \in 1..Len(pc.trace) : pc.trace[p].phase = "collide" }) = 12
  /\ world # prev

\* C26: after a step that was not paused, each velocity component of every block
\* that is neither static nor dragging is 0 or at least the sleep threshold in
\* magnitude, and at most MAX_VELOCITY in magnitude.
C26_VelocityWindow ==
  StepDone
    => \A i \in 1..Len(world.blocks) :
         Free(world.blocks[i])
           => /\ world.blocks[i].vx = 0 \/ Abs(world.blocks[i].vx) >= SLEEP_THRESHOLD
              /\ world.blocks[i].vy = 0 \/ Abs(world.blocks[i].vy) >= SLEEP_THRESHOLD
              /\ Abs(world.blocks[i].vx) <= MAX_VELOCITY
              /\ Abs(world.blocks[i].vy) <= MAX_VELOCITY

\* one block's drift was put to sleep and another block's speed was capped
C26_Witness ==
  /\ StepDone
  /\ \E i, j \in 1..Len(world.blocks) :
       /\ Free(world.blocks[i]) /\ Free(world.blocks[j])
       /\ prev.blocks[i].vx # 0 /\ Abs(prev.blocks[i].vx) < SLEEP_THRESHOLD
       /\ world.blocks[i].vx = 0
       /\ Abs(prev.blocks[j].vx) > MAX_VELOCITY
       /\ Abs(world.blocks[j].vx) = MAX_VELOCITY

----------------------------------------------------------------------------
(* The stack above a block (SpecStack) *)

\* a wide base; two blocks side by side on it; a bridge lying on both of them; a
\* static cap on the bridge and a hat on the cap; a block hanging 4 cm above the
\* base; a block level with the stack whose side only touches the base's span;
\* a block 5 cm above the base, just out of tolerance; and two slabs 4 cm thick
\* side by side at one height, each within tolerance of the other's top
StackOrder ==
  << createBlock("base", M(100), M(500), M(150), M(50), 1, 50, 20, 0, 0, FALSE),
     createBlock("left", M(100), M(450), M(50), M(50), 1, 50, 20, 0, 0, FALSE),
     createBlock("right", M(200), M(450), M(50), M(50), 1, 50, 20, 0, 0, FALSE),
     createBlock("bridge", M(100), M(400), M(150), M(50), 1, 50, 20, 0, 0, FALSE),
     createBlock("cap", M(100), M(350), M(50), M(50), 1, 50, 20, 0, 0, TRUE),
     createBlock("hat", M(100), M(300), M(50), M(50), 1, 50, 20, 0, 0, FALSE),
     createBlock("near", M(240), M(446), M(50), M(50), 1, 50, 20, 0, 0, FALSE),
     createBlock("beside", M(250), M(450), M(50), M(50), 1, 50, 20, 0, 0, FALSE),
     createBlock("gap", M(150), M(445), M(50), M(50), 1, 50, 20, 0, 0, FALSE),
     createBlock("slab", M(300), M(200), M(50), M(4), 1, 50, 20, 0, 0, FALSE),
     createBlock("twin", M(320), M(200), M(50), M(4), 1, 50, 20, 0, 0, FALSE) >>

\* the sequence in the opposite order
Reversed(seq) == [k \in 1..Len(seq) |-> seq[Len(seq) + 1 - k]]

\* the blocks of StackOrder whose ids are in the set, in that order
Arrangement(ids) == SelectSeq(StackOrder, LAMBDA block : block.id \in ids)

InitStack ==
  /\ \E ids \in SUBSET {StackOrder[k].id : k \in 1..Len(StackOrder)},
        backwards \in BOOLEAN :
       world = [createWorld(WorldWidth, WorldHeight) EXCEPT
                  !.blocks = IF backwards THEN Reversed(Arrangement(ids))
                             ELSE Arrangement(ids)]
  /\ prev = world
  /\ lastOp = NoOp
  /\ count = MaxOps - 1      \* one query is made on each world
  /\ idCounter = 0
  /\ pc = Idle

\* findStackAbove on one block of the world
FindStackAbove ==
  /\ \E i \in 1..Len(world.blocks) :
       LET found == findStackAbove(world, world.blocks[i])
       IN Call(world, [NoOp EXCEPT !.op = "findStackAbove", !.i = i,
                                   !.id = world.blocks[i].id,
                                   !.stack = [k \in 1..Len(found) |->
                                                world.blocks[found[k]].id]])

NextStack == FindStackAbove

SpecStack == InitStack /\ [][NextStack]_vars

\* the direct-rest relation: the upper block's bottom edge is within the contact
\* tolerance of the lower block's top edge, and their horizontal spans intersect;
\* with freeOnly, the upper block must also not be static
RestsOn(upper, lower, freeOnly) ==
  /\ Abs((upper.y + upper.height) - lower.y) < CONTACT_TOLERANCE
  /\ upper.x < lower.x + lower.width
  /\ lower.x < upper.x + upper.width
  /\ freeOnly => ~upper.isStatic

\* the ids reached from the ids in reached by going up the direct-rest relation
\* any number of times
RECURSIVE UpwardClosure(_, _, _)
UpwardClosure(w, reached, freeOnly) ==
  LET more == { w.blocks[i].id : i \in { i \in 1..Len(w.blocks) :
                  \E j \in 1..Len(w.blocks) :
                    /\ w.blocks[j].id \in reached
                    /\ i # j
                    /\ RestsOn(w.blocks[i], w.blocks[j], freeOnly) } }
  IN IF more \subseteq reached THEN reached
     ELSE UpwardClosure(w, reached \cup more, freeOnly)

\* the ids of the blocks that rest on the base directly or through other blocks
StackAbove(w, base, freeOnly) ==
  LET direct == { w.blocks[i].id : i \in { i \in 1..Len(w.blocks) :
                    /\ w.blocks[i].id # base.id
                    /\ RestsOn(w.blocks[i], base, freeOnly) } }
  IN UpwardClosure(w, direct, freeOnly)

\* the set of ids in the list findStackAbove returned
Returned == { lastOp.stack[k] : k \in 1..Len(lastOp.stack) }

\* C28 (as claimed): the set of blocks findStackAbove returns is the transitive
\* closure above the base of the direct-rest relation.
C28_StackIsClosure ==
  lastOp.op = "findStackAbove"
    => Returned = StackAbove(prev, prev.blocks[lastOp.i], FALSE)

\* C28 (amended): the set of blocks findStackAbove returns is the transitive
\* closure above the base of the direct-rest relation among blocks that are not
\* static: a static block is neither returned nor climbed through.
C28_StackIsFreeClosure ==
  lastOp.op = "findStackAbove"
    => Returned = StackAbove(prev, prev.blocks[lastOp.i], TRUE)

\* the stack above the base in a world that holds every block: the bridge is
\* returned though it rests on the base only through others, the static cap, the
\* hat on it and the two near misses are not
C28_Witness ==
  /\ lastOp.op = "findStackAbove"
  /\ lastOp.id = "base"
  /\ Len(prev.blocks) = Len(StackOrder)
  /\ Returned = {"left", "right", "bridge", "near"}

\* C29 (as claimed): the list findStackAbove returns holds no block twice and
\* does not hold the base block.
C29_StackHasNoDuplicates ==
  lastOp.op = "findStackAbove"
    => /\ \A p, q \in 1..Len(lastOp.stack) : p # q => lastOp.stack[p] # lastOp.stack[q]
       /\ lastOp.id \notin Returned

====
